---- MODULE Spec2Model ----
(***************************************************************************)
(* Service layer of the catalog backend: BaseService (generic CRUD),       *)
(* ProductService (pagination, reviews, ranking) and the UserController    *)
(* request handlers, over a document store.                                *)
(*                                                                         *)
(* Errors are records [kind |-> "throw", message |-> <<parts>>]: a         *)
(* template string `prefix : ${error.message}` is the sequence made of the *)
(* prefix followed by the parts of the cause's message.                    *)
(***************************************************************************)
EXTENDS Integers, Sequences, FiniteSets, TLC

\* ---------------------------------------------------------------- bounds
NumProducts == 3        \* product ids the review requests name
NumReviewers == 3       \* distinct reviewing users
NumTasks == 2           \* productReview calls that may be in flight at once
MaxReviews == 3         \* reviews stored before sequential submissions stop
MaxStarted == 2         \* productReview calls started by concurrent requests

NumUserIds == 3         \* ids the user collection may hold
NumRequests == 2        \* register requests that may be in flight at once
MaxCatalog == 4         \* products the catalog queries may find
MaxRated == 2           \* reviews stored before the catalog is queried
MaxPage == 3            \* page numbers asked for
MaxPageSize == 2        \* page sizes asked for

ProductIds == 1..NumProducts
UserIds == 1..NumUserIds
Emails == {"ada@x.io", "bea@x.io"}
Passwords == {"pw"}
Reviewers == 1..NumReviewers
Tasks == 1..NumTasks
Ratings == {3, 4, 5}
Comments == {"ok"}

\* ------------------------------------------------------- values and errors
Null == [null |-> TRUE]
Undefined == [undefined |-> TRUE]

Return(v) == [kind |-> "return", value |-> v]
Throw(msg) == [kind |-> "throw", message |-> msg]

\* the error a rejected store call (findById, save, remove, ...) carries
StoreError == Throw(<<"store rejected">>)

\* new Error(`${prefix} : ${error.message}`)
Wrap(prefix, error) == Throw(<<prefix>> \o error.message)

\* ------------------------------------------------------------ BaseService
\* getById: try { return await this.model.findById(id) } catch { wrap }
GetById(coll, id, findFails) ==
    IF findFails
    THEN Wrap("Error while retrieving this item", StoreError)
    ELSE Return(coll[id])

\* the documents of the User model (models/UserModel): a fresh _id, the
\* password kept as a one-way hash, isAdmin false
Hash(password) == [hash |-> password]

FreeId(coll) == CHOOSE i \in UserIds :
    /\ coll[i] = Null
    /\ \A j \in UserIds : coll[j] = Null => i <= j

HasFreeId(coll) == \E i \in UserIds : coll[i] = Null

\* new this.model(data)
NewUser(id, data) ==
    [_id |-> id, firstname |-> data.firstname, lastname |-> data.lastname,
     email |-> data.email, password |-> Hash(data.password), isAdmin |-> FALSE]

DuplicateKey == Throw(<<"E11000 duplicate key">>)

\* item.save(): rejected on a store fault or when another document holds the
\* email (unique index); otherwise the document is stored and returned
SaveUser(coll, doc, saveFails) ==
    IF saveFails
    THEN [outcome |-> StoreError, coll |-> coll]
    ELSE IF \E i \in UserIds \ {doc._id} : coll[i] # Null /\ coll[i].email = doc.email
    THEN [outcome |-> DuplicateKey, coll |-> coll]
    ELSE [outcome |-> Return(doc), coll |-> [coll EXCEPT ![doc._id] = doc]]

\* item.remove(): the removed document is returned
RemoveUser(coll, doc, removeFails) ==
    IF removeFails
    THEN [outcome |-> StoreError, coll |-> coll]
    ELSE [outcome |-> Return(doc), coll |-> [coll EXCEPT ![doc._id] = Null]]

\* Object.assign(item, data): a shallow overwrite of the fields data carries
\* (a password assigned this way is hashed when the document is saved)
Assign(item, data) ==
    [f \in DOMAIN item |->
        IF f \in DOMAIN data
        THEN (IF f = "password" THEN Hash(data[f]) ELSE data[f])
        ELSE item[f]]

ModelName == "User"
NotFoundError == Throw(<<"User not found">>)

\* create: try { newItem = new this.model(data); return await newItem.save() }
Create(coll, data, saveFails) ==
    LET saved == SaveUser(coll, NewUser(FreeId(coll), data), saveFails)
    IN  IF saved.outcome.kind = "throw"
        THEN [outcome |-> Wrap("Error creating item", saved.outcome), coll |-> coll]
        ELSE saved

\* update: the find is awaited inside the try, the not-found error is thrown
\* inside the try, and the promise of item.save() is returned without await,
\* so its rejection settles the call without entering the catch
Update(coll, id, data, findFails, saveFails) ==
    IF findFails
    THEN [outcome |-> Wrap("Error on updating item", StoreError), coll |-> coll]
    ELSE IF coll[id] = Null
    THEN [outcome |-> Wrap("Error on updating item", NotFoundError), coll |-> coll]
    ELSE SaveUser(coll, Assign(coll[id], data), saveFails)

\* delete: as update, with item.remove() returned without await
Delete(coll, id, findFails, removeFails) ==
    IF findFails
    THEN [outcome |-> Wrap("Error on deleting item", StoreError), coll |-> coll]
    ELSE IF coll[id] = Null
    THEN [outcome |-> Wrap("Error on deleting item", NotFoundError), coll |-> coll]
    ELSE RemoveUser(coll, coll[id], removeFails)

\* ---------------------------------------------------------- ProductService
\* a product document as the admin path creates it: no review yet
NewProduct(name) ==
    [_id |-> name[2], name |-> name, reviews |-> <<>>, numReviews |-> 0,
     rating |-> [num |-> 0, den |-> 1]]

ReviewerName(u) == <<"user", u>>
UserObject(u) == [_id |-> u, name |-> ReviewerName(u)]

\* the find callback with the comparison inverted
AlreadyReviewedInverted(product, user) ==
    \E i \in 1..Len(product.reviews) : product.reviews[i].user # user._id

\* product.reviews.find((r) => r.user.toString() === user._id.toString())
AlreadyReviewed(product, user) ==
    \E i \in 1..Len(product.reviews) : product.reviews[i].user = user._id

RECURSIVE SumRatings(_)
\* reviews.reduce((acc, item) => item.rating + acc, 0)
SumRatings(reviews) ==
    IF reviews = <<>> THEN 0
    ELSE reviews[Len(reviews)].rating + SumRatings(SubSeq(reviews, 1, Len(reviews) - 1))

\* the quotient a / b of two numbers, kept exact as a fraction
Quotient(a, b) == [num |-> a, den |-> b]

\* lines 111-121 with the rating averaged over the reviews held before the push
AddReviewStaleMean(product, user, rating, comment) ==
    LET review == [name |-> user.name, rating |-> rating,
                   comment |-> comment, user |-> user._id]
        pushed == Append(product.reviews, review)
    IN  [product EXCEPT
            !.reviews = pushed,
            !.numReviews = Len(pushed),
            !.rating = Quotient(SumRatings(product.reviews) + rating,
                                IF product.reviews = <<>> THEN 1
                                ELSE Len(product.reviews))]

\* lines 111-121: build the review, push it, recompute numReviews and rating
AddReview(product, user, rating, comment) ==
    LET review == [name |-> user.name, rating |-> rating,
                   comment |-> comment, user |-> user._id]
        pushed == Append(product.reviews, review)
    IN  [product EXCEPT
            !.reviews = pushed,
            !.numReviews = Len(pushed),
            !.rating = Quotient(SumRatings(pushed), Len(pushed))]

\* product.save() of a loaded document: the store applies what changed since
\* the load, i.e. the pushed reviews are appended to the stored array and the
\* assigned scalar fields are set
SaveProduct(stored, loaded, modified) ==
    [stored EXCEPT
        !.reviews = @ \o SubSeq(modified.reviews, Len(loaded.reviews) + 1,
                                Len(modified.reviews)),
        !.numReviews = modified.numReviews,
        !.rating = modified.rating]

\* productReview after `await this.getById(productId)` has resolved to
\* `loaded`: the outcome of the call and the document it saves (Null: no save)
ReviewLoaded(loaded, user, rating, comment, saveFails) ==
    IF loaded = Null
    THEN [outcome |-> Throw(<<"Product not found">>), saved |-> Null]
    ELSE IF AlreadyReviewed(loaded, user)
    THEN [outcome |-> Throw(<<"Product already reviewed">>), saved |-> Null]
    ELSE IF saveFails
    THEN [outcome |-> StoreError, saved |-> Null]
    ELSE [outcome |-> Return(Undefined),
          saved |-> AddReview(loaded, user, rating, comment)]

VARIABLES
    products,       \* the product collection: id -> document or Null
    reviewTasks,    \* productReview calls in flight: position, arguments, loaded document
    started,        \* productReview calls started by concurrent requests
    reviewOutcome,  \* how the productReview call that ended last ended
    users,          \* the user collection: id -> document or Null
    baseCall,       \* the BaseService call made last: arguments, store fault, outcome
    registerReqs,   \* register requests in flight: position, body, responses written
    userResponse,   \* the UserController request that ended last: what it wrote
    catalogResult   \* the catalog query made last: arguments, collection read, outcome

reviewVars == <<products, reviewTasks, started, reviewOutcome>>
userVars == <<users, baseCall, registerReqs, userResponse>>
vars == <<reviewVars, userVars, catalogResult>>

IdleTask ==
    [pc |-> "idle", productId |-> 0, user |-> 0, rating |-> 0, loaded |-> Null]

AllIdle == \A t \in Tasks : reviewTasks[t].pc = "idle"

RECURSIVE CountReviews(_)
\* reviews stored in the products of ids 1..n
CountReviews(n) ==
    IF n = 0 THEN 0
    ELSE (IF products[n] = Null THEN 0 ELSE Len(products[n].reviews))
             + CountReviews(n - 1)

\* productReview up to the resolution of `await this.getById(productId)`; the
\* call ends there when getById throws or finds no product
ReviewLoad(t, p, u, r, findFails) ==
    /\ reviewTasks[t].pc = "idle"
    /\ started < MaxStarted
    /\ started' = started + 1
    /\ LET got == GetById(products, p, findFails)
       IN  IF got.kind = "throw"
           THEN /\ reviewOutcome' = got
                /\ UNCHANGED reviewTasks
           ELSE IF got.value = Null
           THEN /\ reviewOutcome' =
                      ReviewLoaded(Null, UserObject(u), r, "", FALSE).outcome
                /\ UNCHANGED reviewTasks
           ELSE /\ reviewTasks' = [reviewTasks EXCEPT ![t] =
                       [pc |-> "loaded", productId |-> p, user |-> u,
                        rating |-> r, loaded |-> got.value]]
                /\ UNCHANGED reviewOutcome
    /\ UNCHANGED <<products, userVars, catalogResult>>

\* productReview from the check of the loaded product to the end of the call,
\* where the save reaches the store
ReviewFinish(t, c, saveFails) ==
    LET task == reviewTasks[t]
        step == ReviewLoaded(task.loaded, UserObject(task.user), task.rating,
                             c, saveFails)
    IN  /\ task.pc = "loaded"
        /\ reviewTasks' = [reviewTasks EXCEPT ![t] = IdleTask]
        /\ reviewOutcome' = step.outcome
        /\ products' = IF step.saved = Null THEN products
                       ELSE [products EXCEPT ![task.productId] =
                               SaveProduct(@, task.loaded, step.saved)]
        /\ UNCHANGED <<started, userVars, catalogResult>>

\* a whole productReview call with no other request in between
ReviewCall(p, u, r, c, findFails, saveFails) ==
    LET got == GetById(products, p, findFails)
        step == ReviewLoaded(got.value, UserObject(u), r, c, saveFails)
    IN  /\ CountReviews(NumProducts) < MaxReviews
        /\ IF got.kind = "throw"
           THEN /\ reviewOutcome' = got
                /\ UNCHANGED products
           ELSE /\ reviewOutcome' = step.outcome
                /\ products' = IF step.saved = Null THEN products
                               ELSE [products EXCEPT ![p] =
                                       SaveProduct(@, got.value, step.saved)]
        /\ UNCHANGED <<reviewTasks, started, userVars, catalogResult>>

NoCall ==
    [op |-> "none", id |-> 0, present |-> FALSE, fault |-> "none",
     cause |-> Undefined, outcome |-> Undefined]

NoUsers == [i \in UserIds |-> Null]

Requests == 1..NumRequests

IdleRequest == [pc |-> "idle", body |-> Null, writes |-> <<>>, userExists |-> FALSE]

NoResponse ==
    [handler |-> "none", writes |-> <<>>, userExists |-> FALSE,
     calledCreate |-> FALSE, storeCallAfterSend |-> FALSE]

NoQuery == [op |-> "none", pageNumber |-> 0, pageSize |-> 0, keywords |-> "",
            found |-> <<>>, outcome |-> Undefined]

NoRequests ==
    /\ registerReqs = [r \in Requests |-> IdleRequest]
    /\ userResponse = NoResponse
    /\ catalogResult = NoQuery

InitReviews ==
    /\ users = NoUsers
    /\ baseCall = NoCall
    /\ NoRequests
    /\ products = [p \in ProductIds |->
                      IF p <= 2 THEN NewProduct(<<"product", ToString(p)>>) ELSE Null]
    /\ reviewTasks = [t \in Tasks |-> IdleTask]
    /\ started = 0
    /\ reviewOutcome = Undefined

NextReviews ==
    \/ \E t \in Tasks, p \in ProductIds, u \in Reviewers, r \in Ratings,
          findFails \in BOOLEAN : ReviewLoad(t, p, u, r, findFails)
    \/ \E t \in Tasks, c \in Comments, saveFails \in BOOLEAN :
          ReviewFinish(t, c, saveFails)

\* concurrent requests: calls interleave at their awaits
SpecReviews == InitReviews /\ [][NextReviews]_vars

NextSeq ==
    \E p \in ProductIds, u \in Reviewers, r \in Ratings, c \in Comments,
       findFails \in BOOLEAN, saveFails \in BOOLEAN :
          ReviewCall(p, u, r, c, findFails, saveFails)

\* one request at a time: every call runs to its end before the next starts
SpecSeq == InitReviews /\ [][NextSeq]_vars

\* --------------------------------------------- BaseService over the users
CreateData ==
    [firstname : {"Ada"}, lastname : {"Lo"}, email : Emails, password : Passwords]

UpdateData ==
    {[firstname |-> "Bea"], [isAdmin |-> TRUE]} \cup {[email |-> e] : e \in Emails}

\* the store call that was rejected during a call, and the error it carried
Fault(findFails, found, written, call) ==
    IF findFails THEN [fault |-> "findById", cause |-> StoreError]
    ELSE IF found /\ written.outcome.kind = "throw"
    THEN [fault |-> call, cause |-> written.outcome]
    ELSE [fault |-> "none", cause |-> Undefined]

Called(op, id, fault, outcome) ==
    [op |-> op, id |-> id, present |-> users[id] # Null, fault |-> fault.fault,
     cause |-> fault.cause, outcome |-> outcome]

UnchangedOthers == UNCHANGED <<reviewVars, catalogResult>>

BaseGetById(id, findFails) ==
    /\ baseCall' = Called("getById", id,
                          Fault(findFails, FALSE, Undefined, "findById"),
                          GetById(users, id, findFails))
    /\ UNCHANGED users
    /\ UnchangedOthers
    /\ UNCHANGED <<registerReqs, userResponse>>

BaseCreate(data, saveFails) ==
    /\ HasFreeId(users)
    /\ LET id == FreeId(users)
           written == SaveUser(users, NewUser(id, data), saveFails)
           done == Create(users, data, saveFails)
       IN  /\ baseCall' = [Called("create", id,
                                  Fault(FALSE, TRUE, written, "save"), done.outcome)
                              EXCEPT !.present = FALSE]
           /\ users' = done.coll
    /\ UnchangedOthers
    /\ UNCHANGED <<registerReqs, userResponse>>

BaseUpdate(id, data, findFails, saveFails) ==
    LET found == users[id] # Null
        written == IF found THEN SaveUser(users, Assign(users[id], data), saveFails)
                   ELSE Undefined
        done == Update(users, id, data, findFails, saveFails)
    IN  /\ baseCall' = Called("update", id,
                              Fault(findFails, found, written, "save"), done.outcome)
        /\ users' = done.coll
        /\ UnchangedOthers
        /\ UNCHANGED <<registerReqs, userResponse>>

BaseDelete(id, findFails, removeFails) ==
    LET found == users[id] # Null
        written == IF found THEN RemoveUser(users, users[id], removeFails)
                   ELSE Undefined
        done == Delete(users, id, findFails, removeFails)
    IN  /\ baseCall' = Called("delete", id,
                              Fault(findFails, found, written, "remove"), done.outcome)
        /\ users' = done.coll
        /\ UnchangedOthers
        /\ UNCHANGED <<registerReqs, userResponse>>

InitBase ==
    /\ users = NoUsers
    /\ baseCall = NoCall
    /\ NoRequests
    /\ products = [p \in ProductIds |-> Null]
    /\ reviewTasks = [t \in Tasks |-> IdleTask]
    /\ started = 0
    /\ reviewOutcome = Undefined

NextBase ==
    \/ \E id \in UserIds, findFails \in BOOLEAN : BaseGetById(id, findFails)
    \/ \E data \in CreateData, saveFails \in BOOLEAN : BaseCreate(data, saveFails)
    \/ \E id \in UserIds, data \in UpdateData, findFails \in BOOLEAN,
          saveFails \in BOOLEAN : BaseUpdate(id, data, findFails, saveFails)
    \/ \E id \in UserIds, findFails \in BOOLEAN, removeFails \in BOOLEAN :
          BaseDelete(id, findFails, removeFails)

\* direct calls of the generic CRUD operations, one after the other
SpecBase == InitBase /\ [][NextBase]_vars

\* ------------------------------------------------------------ UserService
\* JSON values of a response body, tagged with their type
JObject(fields) == [t |-> "object", v |-> fields]
JArray(items) == [t |-> "array", v |-> items]
JString(text) == [t |-> "string", v |-> text]

\* users === 0
StrictEqualsZero(j) == j.t = "number" /\ j.v = 0

\* the fields the handlers copy out of a user document
Public(user) ==
    [_id |-> user._id, firstname |-> user.firstname, lastname |-> user.lastname,
     email |-> user.email, isAdmin |-> user.isAdmin]

GenerateToken(id) == [subject |-> id]

WithToken(user) ==
    [_id |-> user._id, firstname |-> user.firstname, lastname |-> user.lastname,
     email |-> user.email, isAdmin |-> user.isAdmin, token |-> GenerateToken(user._id)]

IsValidEmail(email) == email \in Emails

\* User.findOne({ email })
FindOne(coll, email) ==
    IF \E i \in UserIds : coll[i] # Null /\ coll[i].email = email
    THEN coll[CHOOSE i \in UserIds : coll[i] # Null /\ coll[i].email = email]
    ELSE Null

Envelope(status, message, data) ==
    [status |-> status, message |-> message, error |-> FALSE, data |-> data]

ErrorEnvelope(status, message) ==
    [status |-> status, message |-> message, error |-> TRUE, data |-> Undefined]

AuthentificationUser(coll, email, password) ==
    LET user == FindOne(coll, email)
    IN  IF user = Null THEN ErrorEnvelope(404, "user.not_found")
        ELSE IF user.password # Hash(password)
        THEN ErrorEnvelope(401, "user.invalid_credentials")
        ELSE Envelope(200, "user.authenticated", WithToken(user))

RECURSIVE ListUsers(_, _)
ListUsers(coll, n) ==
    IF n = 0 THEN <<>>
    ELSE ListUsers(coll, n - 1)
            \o (IF coll[n] = Null THEN <<>> ELSE <<Public(coll[n])>>)

AllUsers(coll) == JArray(ListUsers(coll, NumUserIds))

UserProfile(coll, id) ==
    IF coll[id] = Null THEN NotFoundError ELSE Return(Public(coll[id]))

UpdateUserProfile(coll, id, data, saveFails) ==
    IF coll[id] = Null
    THEN [envelope |-> ErrorEnvelope(404, "user.not_found"), coll |-> coll]
    ELSE LET saved == SaveUser(coll, Assign(coll[id], data), saveFails)
         IN  IF saved.outcome.kind = "throw"
             THEN [envelope |-> ErrorEnvelope(500, "default"), coll |-> coll]
             ELSE [envelope |-> Envelope(200, "user.profile_updated",
                                         WithToken(saved.outcome.value)),
                   coll |-> saved.coll]

\* ---------------------------------------------------------- UserController
Message(m) == [message |-> m]
MessageData(m, d) == [message |-> m, data |-> d]

\* res.status(status).json(body): the responses a request wrote, in order; only
\* the first is sent, a later one throws (headers already sent)
Write(writes, status, body) == Append(writes, [status |-> status, body |-> body])

HeadersSent(writes) == Len(writes) > 0

\* a write inside a try whose catch answers catchStatus with the default message
TryWrite(writes, status, body, catchStatus) ==
    IF HeadersSent(writes)
    THEN Write(Write(writes, status, body), catchStatus, Message("default"))
    ELSE Write(writes, status, body)

Ended(handler, writes) ==
    [handler |-> handler, writes |-> writes, userExists |-> FALSE,
     calledCreate |-> FALSE, storeCallAfterSend |-> FALSE]

RegisterBodies ==
    {Null} \cup [firstname : {"", "Ada"}, lastname : {"", "Lo"},
                 email : {"", "nope"} \cup Emails, password : {""} \cup Passwords]

\* register up to the resolution of `await userService.create(...)`'s call
RegisterBegin(r, body, findFails) ==
    LET end(w, exists) ==
            /\ userResponse' = [Ended("register", w) EXCEPT !.userExists = exists]
            /\ UNCHANGED registerReqs
    IN  /\ registerReqs[r].pc = "idle"
        /\ IF body = Null
           THEN end(Write(<<>>, 422, Message("validations")), FALSE)
           ELSE IF body.firstname = ""
           THEN end(Write(<<>>, 400, Message("user.firstname")), FALSE)
           ELSE IF body.lastname = ""
           THEN end(Write(<<>>, 400, Message("user.lastname")), FALSE)
           ELSE IF body.email = ""
           THEN end(Write(<<>>, 400, Message("user.email")), FALSE)
           ELSE IF body.password = ""
           THEN end(Write(<<>>, 400, Message("user.password")), FALSE)
           ELSE IF findFails
           THEN end(Write(<<>>, 500, Message("default")), FALSE)
           ELSE LET userExists == FindOne(users, body.email) # Null
                    answered == IF userExists
                                THEN Write(<<>>, 409, Message("user.already_exist"))
                                ELSE <<>>
                IN  IF ~IsValidEmail(body.email)
                    THEN end(TryWrite(answered, 400, Message("user.invalid_email"), 500),
                             userExists)
                    ELSE /\ registerReqs' = [registerReqs EXCEPT ![r] =
                                [pc |-> "creating", body |-> body,
                                 writes |-> answered, userExists |-> userExists]]
                         /\ UNCHANGED userResponse
        /\ UNCHANGED <<users, baseCall>>
        /\ UnchangedOthers

\* register from the resolution of userService.create to the end of the handler
RegisterCreate(r, saveFails) ==
    LET req == registerReqs[r]
        done == Create(users, req.body, saveFails)
        writes ==
            IF done.outcome.kind = "throw"
            THEN Write(req.writes, 500, Message("default"))
            ELSE IF done.outcome.value # Null
            THEN TryWrite(req.writes, 201,
                          MessageData("user.created",
                                      JObject(WithToken(done.outcome.value))), 500)
            ELSE TryWrite(req.writes, 403, Message("default"), 500)
    IN  /\ req.pc = "creating"
        /\ HasFreeId(users)
        /\ users' = done.coll
        /\ registerReqs' = [registerReqs EXCEPT ![r] = IdleRequest]
        /\ userResponse' = [handler |-> "register", writes |-> writes,
                            userExists |-> req.userExists, calledCreate |-> TRUE,
                            storeCallAfterSend |-> HeadersSent(req.writes)]
        /\ UNCHANGED baseCall
        /\ UnchangedOthers

Login(email, password, fails) ==
    LET auth == AuthentificationUser(users, email, password)
    IN  /\ userResponse' = Ended("login",
              IF fails THEN Write(<<>>, 500, Message("default"))
              ELSE IF auth.error THEN Write(<<>>, auth.status, Message(auth.message))
              ELSE Write(<<>>, auth.status,
                         MessageData(auth.message, JObject(auth.data))))
        /\ UNCHANGED <<users, baseCall, registerReqs>>
        /\ UnchangedOthers

GetUsers(fails) ==
    LET list == AllUsers(users)
        answered == IF StrictEqualsZero(list)
                    THEN Write(<<>>, 400, Message("collection"))
                    ELSE <<>>
    IN  /\ userResponse' = Ended("getUsers",
              IF fails THEN Write(<<>>, 500, Message("default"))
              ELSE TryWrite(answered, 200,
                            MessageData("user.collection_informations", list), 500))
        /\ UNCHANGED <<users, baseCall, registerReqs>>
        /\ UnchangedOthers

GetUserById(id, findFails) ==
    LET got == GetById(users, id, findFails)
    IN  /\ userResponse' = Ended("getUserById",
              IF got.kind = "throw" THEN Write(<<>>, 500, Message("default"))
              ELSE IF got.value = Null
              THEN Write(<<>>, 403, Message("user.not_found"))
              ELSE Write(<<>>, 200, MessageData("user.informations",
                                                JObject(Public(got.value)))))
        /\ UNCHANGED <<users, baseCall, registerReqs>>
        /\ UnchangedOthers

\* no try/catch: a throwing update leaves the handler without a response of its own
UpdateUser(id, data, findFails, saveFails) ==
    LET done == Update(users, id, data, findFails, saveFails)
    IN  /\ userResponse' = Ended("updateUser",
              IF done.outcome.kind = "throw" THEN <<>>
              ELSE Write(<<>>, 200, MessageData("user.updated",
                                                JObject(done.outcome.value))))
        /\ users' = done.coll
        /\ UNCHANGED <<baseCall, registerReqs>>
        /\ UnchangedOthers

GetUserProfile(userId, fails) ==
    LET profile == UserProfile(users, userId)
    IN  /\ userResponse' = Ended("getUserProfile",
              IF fails \/ profile.kind = "throw"
              THEN Write(<<>>, 404, Message("default"))
              ELSE Write(<<>>, 200, JObject(profile.value)))
        /\ UNCHANGED <<users, baseCall, registerReqs>>
        /\ UnchangedOthers

UpdateProfile(userId, data, fails, saveFails) ==
    LET done == UpdateUserProfile(users, userId, data, saveFails)
        env == done.envelope
        answered == IF env.error
                    THEN Write(<<>>, env.status, JString(env.message))
                    ELSE <<>>
    IN  /\ userResponse' = Ended("updateUserProfile",
              IF fails THEN Write(<<>>, 400, Message("default"))
              ELSE TryWrite(answered, env.status,
                            MessageData(env.message,
                                        IF env.error THEN Undefined
                                        ELSE JObject(env.data)), 400))
        /\ users' = IF fails THEN users ELSE done.coll
        /\ UNCHANGED <<baseCall, registerReqs>>
        /\ UnchangedOthers

\* no try/catch: a throwing delete leaves the handler without a response of its own
DeleteUser(id, findFails, removeFails) ==
    LET done == Delete(users, id, findFails, removeFails)
        answered == IF done.outcome.kind = "return" /\ done.outcome.value = Null
                    THEN Write(<<>>, 403, Message("user.deleted"))
                    ELSE <<>>
    IN  /\ userResponse' = Ended("deleteUser",
              IF done.outcome.kind = "throw" THEN <<>>
              ELSE Write(answered, 200, MessageData("user.deleted",
                                                    JObject(done.outcome.value))))
        /\ users' = done.coll
        /\ UNCHANGED <<baseCall, registerReqs>>
        /\ UnchangedOthers

LoginPasswords == Passwords \cup {"bad"}

NextUsers ==
    \/ \E r \in Requests, body \in RegisterBodies, findFails \in BOOLEAN :
          RegisterBegin(r, body, findFails)
    \/ \E r \in Requests, saveFails \in BOOLEAN : RegisterCreate(r, saveFails)
    \/ \E email \in Emails, password \in LoginPasswords, fails \in BOOLEAN :
          Login(email, password, fails)
    \/ \E fails \in BOOLEAN : GetUsers(fails)
    \/ \E id \in UserIds, findFails \in BOOLEAN : GetUserById(id, findFails)
    \/ \E id \in UserIds, data \in UpdateData, findFails \in BOOLEAN,
          saveFails \in BOOLEAN : UpdateUser(id, data, findFails, saveFails)
    \/ \E id \in UserIds, fails \in BOOLEAN : GetUserProfile(id, fails)
    \/ \E id \in UserIds, data \in UpdateData, fails \in BOOLEAN,
          saveFails \in BOOLEAN : UpdateProfile(id, data, fails, saveFails)
    \/ \E id \in UserIds, findFails \in BOOLEAN, removeFails \in BOOLEAN :
          DeleteUser(id, findFails, removeFails)

\* requests to the user routes; register requests interleave at their awaits
SpecUsers == InitBase /\ [][NextUsers]_vars

\* -------------------------------------------------- catalog queries
\* the names line 70 can resolve: the parameters and locals of allProducts and
\* the bindings of its module
AllProductsScope ==
    {"pageNumber", "pageSize", "keywords", "skip", "query", "count", "products",
     "BaseService", "Product", "ProductService", "Math", "this"}

Fold(word) == IF word = "PRODUCT" THEN "product" ELSE word

\* { name: { $regex: keywords, $options: 'i' } } against a name made of words
MatchesQuery(product, query) ==
    \/ query = [all |-> TRUE]
    \/ /\ "regex" \in DOMAIN query
       /\ \E i \in DOMAIN product.name : Fold(product.name[i]) = Fold(query.regex)

RECURSIVE Find(_, _, _)
\* this.model.find(query): the matching documents of ids 1..n in natural order
Find(coll, query, n) ==
    IF n = 0 THEN <<>>
    ELSE Find(coll, query, n - 1)
            \o (IF coll[n] # Null /\ MatchesQuery(coll[n], query)
                THEN <<coll[n]>> ELSE <<>>)

\* .skip(n), n >= 0
Skip(docs, n) == SubSeq(docs, n + 1, Len(docs))

\* .limit(n), n >= 1
Limit(docs, n) == SubSeq(docs, 1, IF Len(docs) < n THEN Len(docs) ELSE n)

\* Math.ceil(a / b) for a >= 0, b >= 1
Ceil(a, b) == (a + b - 1) \div b

\* allProducts: the read of `keyword` at line 70 throws unless the name resolves
AllProducts(coll, pageNumber, pageSize, keywords) ==
    IF "keyword" \notin AllProductsScope
    THEN Throw(<<"ReferenceError", "keyword is not defined">>)
    ELSE LET skip == pageSize * (pageNumber - 1)
             query == IF keywords # "" THEN [regex |-> keywords, options |-> "i"]
                      ELSE [all |-> TRUE]
             count == Len(Find(coll, query, MaxCatalog))
         IN  Return([products |-> Limit(Skip(Find(coll, query, MaxCatalog), skip),
                                        pageSize),
                     page |-> pageNumber,
                     pages |-> Ceil(count, pageSize)])

TopLimit == 3

\* the value .sort() orders a document by: a missing field sorts as null
SortKey(doc, field) == IF field \in DOMAIN doc THEN doc[field] ELSE Null

\* a sorts strictly before b in descending order (null is the lowest value)
Before(a, b) ==
    /\ a # Null
    /\ \/ b = Null
       \/ a.num * b.den > b.num * a.den

\* the orders in which n documents can come back
Orderings(n) == {f \in [1..n -> 1..n] : \A i, j \in 1..n : f[i] = f[j] => i = j}

\* .sort({ field: -1 }): the documents in an order that is descending in the
\* key; the store leaves the order of documents with equal keys open
SortDesc(docs, field) ==
    {s \in {[i \in 1..Len(docs) |-> docs[f[i]]] : f \in Orderings(Len(docs))} :
        \A i, j \in 1..Len(s) :
            i < j => ~Before(SortKey(s[j], field), SortKey(s[i], field))}

\* Product.find({}).sort({range: -1}).limit(3): the results the query can give
TopProducts(coll) ==
    {Limit(s, TopLimit) : s \in SortDesc(Find(coll, [all |-> TRUE], MaxCatalog), "range")}

Keywords == {"", "PRODUCT"}

QueryAllProducts(pageNumber, pageSize, keywords) ==
    /\ catalogResult' =
          [op |-> "allProducts", pageNumber |-> pageNumber, pageSize |-> pageSize,
           keywords |-> keywords, found |-> Find(products, [all |-> TRUE], MaxCatalog),
           outcome |-> AllProducts(products, pageNumber, pageSize, keywords)]
    /\ UNCHANGED <<reviewVars, userVars>>

QueryTopProducts ==
    /\ \E top \in TopProducts(products) :
          catalogResult' =
             [NoQuery EXCEPT !.op = "topProducts",
                             !.found = Find(products, [all |-> TRUE], MaxCatalog),
                             !.outcome = Return(top)]
    /\ UNCHANGED <<reviewVars, userVars>>

InitCatalog ==
    /\ \E n \in 0..MaxCatalog :
          products = [p \in 1..MaxCatalog |->
                         IF p <= n THEN NewProduct(<<"product", ToString(p)>>)
                         ELSE Null]
    /\ reviewTasks = [t \in Tasks |-> IdleTask]
    /\ started = 0
    /\ reviewOutcome = Undefined
    /\ users = NoUsers
    /\ baseCall = NoCall
    /\ NoRequests

NextCatalog ==
    \/ \E p \in ProductIds, u \in Reviewers, r \in Ratings, c \in Comments,
          findFails \in BOOLEAN, saveFails \in BOOLEAN :
             /\ catalogResult = NoQuery
             /\ CountReviews(NumProducts) < MaxRated
             /\ ReviewCall(p, u, r, c, findFails, saveFails)
    \/ \E pageNumber \in 1..MaxPage, pageSize \in 1..MaxPageSize, keywords \in Keywords :
          QueryAllProducts(pageNumber, pageSize, keywords)
    \/ QueryTopProducts

\* catalog queries over a collection of reviewed products (the queries write
\* nothing, so they are made once the reviews are in)
SpecCatalog == InitCatalog /\ [][NextCatalog]_vars

\* ------------------------------------------------------------------ claims
Present(p) == products[p] # Null

HoldsReviewBy(product, u) ==
    \E i \in DOMAIN product.reviews : product.reviews[i].user = u

RECURSIVE TotalRating(_)
TotalRating(reviews) ==
    IF Len(reviews) = 0 THEN 0 ELSE Head(reviews).rating + TotalRating(Tail(reviews))

RatingsOf(product) == [i \in DOMAIN product.reviews |-> product.reviews[i].rating]

\* C1: in every reachable state, whatever the interleaving of productReview
\* calls, every product's review collection holds at most one review per user
OneReviewPerUser ==
    \A p \in ProductIds : Present(p) =>
        \A i, j \in DOMAIN products[p].reviews :
            products[p].reviews[i].user = products[p].reviews[j].user => i = j

\* C5: a productReview call that loaded a product already holding a review by
\* its user ends with the already-reviewed error and leaves the store as it was
DuplicateReviewRejected ==
    [][\A t \in Tasks :
          ( /\ reviewTasks[t].pc = "loaded"
            /\ reviewTasks[t].loaded # Null
            /\ HoldsReviewBy(reviewTasks[t].loaded, reviewTasks[t].user)
            /\ reviewTasks'[t].pc = "idle" )
          => ( /\ reviewOutcome' = Throw(<<"Product already reviewed">>)
               /\ products' = products )]_vars

\* C5 witness: a second submission by the same user was rejected while the
\* product keeps that user's first review
DuplicateReviewWitness ==
    \E p \in ProductIds :
        /\ reviewOutcome = Throw(<<"Product already reviewed">>)
        /\ Present(p)
        /\ products[p].numReviews = 1
        /\ Len(products[p].reviews) = 1

\* C6: with calls made one after the other, every stored product has
\* numReviews equal to the number of its reviews and rating equal to the mean of
\* their ratings (rating * numReviews = sum of ratings); ratings 5, 3, 4 give 4
RatingIsMean ==
    \A p \in ProductIds : Present(p) =>
        LET product == products[p]
        IN  /\ product.numReviews = Len(product.reviews)
            /\ product.rating.den > 0
            /\ product.rating.num * product.numReviews
                   = TotalRating(product.reviews) * product.rating.den
            /\ RatingsOf(product) = <<5, 3, 4>> =>
                   /\ product.numReviews = 3
                   /\ product.rating.num = 4 * product.rating.den

\* C6 witness: ratings 5, 3, 4 were submitted on an unreviewed product
RatingIsMeanWitness ==
    \E p \in ProductIds :
        /\ Present(p)
        /\ RatingsOf(products[p]) = <<5, 3, 4>>
        /\ reviewOutcome = Return(Undefined)

\* what a caller can tell from an outcome: a store failure is the service-level
\* wrapper around a cause, or the raw error of the store
WrapperPrefixes ==
    {"Error while retrieving this item", "Error creating item",
     "Error on updating item", "Error on deleting item"}

IsStoreFailure(o) ==
    /\ o.kind = "throw"
    /\ \/ Head(o.message) \in WrapperPrefixes
       \/ o \in {StoreError, DuplicateKey}

IsNotFound(o) ==
    \/ o = Return(Null)
    \/ o.kind = "throw" /\ o.message = <<"User not found">>

\* C4: for an id that is not in the store, getById, update and delete end with
\* a NotFound outcome that is not a StoreFailure, and the store is unchanged
AbsentIdIsNotFound ==
    [][( /\ baseCall' # baseCall
         /\ baseCall'.op \in {"getById", "update", "delete"}
         /\ ~baseCall'.present
         /\ baseCall'.fault = "none" )
       => ( /\ IsNotFound(baseCall'.outcome)
            /\ ~IsStoreFailure(baseCall'.outcome)
            /\ users' = users )]_vars

ClaimedPrefix(op) ==
    CASE op = "getById" -> "Error while retrieving this item"
      [] op = "create" -> "Error creating item"
      [] op = "update" -> "Error on updating item"
      [] op = "delete" -> "Error on deleting item"

\* C9: every store failure inside a BaseService operation reaches the caller as
\* the wrapped error of that operation carrying the cause's message
StoreFailureIsWrapped ==
    baseCall.fault # "none" =>
        baseCall.outcome = Throw(<<ClaimedPrefix(baseCall.op)>> \o baseCall.cause.message)

JHasPassword(j) ==
    IF "t" \notin DOMAIN j THEN FALSE
    ELSE IF j.t = "object" THEN "password" \in DOMAIN j.v
    ELSE IF j.t = "array"
    THEN \E i \in DOMAIN j.v : "password" \in DOMAIN j.v[i]
    ELSE FALSE

HasPassword(body) ==
    IF "data" \in DOMAIN body THEN JHasPassword(body.data) ELSE JHasPassword(body)

StoredEmailsUnique ==
    \A i, j \in UserIds :
        (users[i] # Null /\ users[j] # Null /\ users[i].email = users[j].email)
            => i = j

\* C2: no two stored users share an email, and a register request whose email
\* belongs to a stored user is rejected without reaching userService.create
EmailUniqueAtCreation ==
    /\ StoredEmailsUnique
    /\ (userResponse.handler = "register" /\ userResponse.userExists)
          => ( /\ ~userResponse.calledCreate
               /\ Len(userResponse.writes) = 1
               /\ userResponse.writes[1].status = 409 )

\* C3: no response body written by a UserController handler carries a
\* password field of a user document
NoPasswordInResponse ==
    \A i \in DOMAIN userResponse.writes : ~HasPassword(userResponse.writes[i].body)

\* C10: a handler writes at most one response and calls the store for no
\* write once it has answered; stated here for register, whose every step is
\* in the controller and BaseService (the claim says it of every handler)
RegisterAnswersOnce ==
    /\ userResponse.handler = "register" =>
           /\ Len(userResponse.writes) <= 1
           /\ ~userResponse.storeCallAfterSend
    /\ \A r \in Requests : registerReqs[r].pc = "creating" =>
           ~HeadersSent(registerReqs[r].writes)

Min(a, b) == IF a < b THEN a ELSE b
Max(a, b) == IF a > b THEN a ELSE b

\* C7: allProducts(pageNumber, pageSize, "") with pageNumber, pageSize >= 1 over
\* N products returns page = pageNumber, pages = ceil(N / pageSize) and the
\* min(pageSize, max(0, N - pageSize*(pageNumber-1))) products after the first
\* pageSize*(pageNumber-1)
PaginationReturnsPage ==
    ( /\ catalogResult.op = "allProducts"
      /\ catalogResult.keywords = ""
      /\ catalogResult.pageNumber >= 1
      /\ catalogResult.pageSize >= 1 )
    => LET n == Len(catalogResult.found)
           first == catalogResult.pageSize * (catalogResult.pageNumber - 1)
           size == Min(catalogResult.pageSize, Max(0, n - first))
       IN  /\ catalogResult.outcome.kind = "return"
           /\ catalogResult.outcome.value.page = catalogResult.pageNumber
           /\ catalogResult.outcome.value.pages * catalogResult.pageSize >= n
           /\ catalogResult.outcome.value.pages * catalogResult.pageSize
                  < n + catalogResult.pageSize
           /\ catalogResult.outcome.value.products
                 = [i \in 1..size |-> catalogResult.found[first + i]]

RatingAtLeast(a, b) == a.rating.num * b.rating.den >= b.rating.num * a.rating.den

\* C8: topProducts returns at most 3 products in descending order of rating,
\* and no product left out is rated above a product returned
TopProductsByRating ==
    catalogResult.op = "topProducts" =>
        LET top == catalogResult.outcome.value
            all == catalogResult.found
        IN  /\ Len(top) <= 3
            /\ \A i, j \in DOMAIN top : i < j => RatingAtLeast(top[i], top[j])
            /\ \A k \in DOMAIN all :
                  (\A i \in DOMAIN top : top[i]._id # all[k]._id)
                     => \A i \in DOMAIN top : RatingAtLeast(top[i], all[k])

====
